---- MODULE Spec2Model ----
(***************************************************************************)
(* The bet-resolution oracle of the coin-flip game:                        *)
(*   src/api/oracle/check-pending.js  lines 44-188  sweep (cron) handler   *)
(*                                    and its resolveBet helper            *)
(*   src/api/oracle/check-pending.js  lines 236-356 single-bet handler     *)
(* The bet ledger (bets, oracleSigner, resolveBet on chain) is the         *)
(* contract the two handlers call; only its ABI (lines 36-41) is in the    *)
(* sources, so its transitions follow sections 3, 4.2 and 6 of the         *)
(* specification.                                                          *)
(*                                                                         *)
(* Every `await` of the handlers is a suspension point.  A step of the     *)
(* model runs a handler from one read of the ledger's mutable state (the   *)
(* status of a bet, the outcome of a transaction) up to the next one.  The *)
(* awaits in between read what never changes once it exists (the block     *)
(* number bounding a query, the BetPlaced events, oracleSigner()), sign    *)
(* locally, or hand a transaction to the chain, which executes it in a     *)
(* step of its own (MineTx); each of them can still throw (Faults).        *)
(***************************************************************************)
EXTENDS Integers, Sequences, FiniteSets, TLC

\* ---------------------------------------------------------------- bounds
MaxBets == 2         \* bets placed in one behaviour
MaxJumps == 1        \* times the chain height jumps
BlockJump == 1001    \* blocks of one jump
MaxFaults == 1       \* chain calls that throw in one behaviour
CapBets == 6         \* bets on the ledger when one sweep meets a backlog
MaxRequests == 4
MaxFlips == 2        \* calls of flip in one behaviour
MaxHeight == 9       \* blocks of the chain the component reads

\* ------------------------------------------------------ program constants
SweepWindow == 1000          \* currentBlock - 1000
EventWindow == 100           \* placedAtBlock - 100
BatchCap == 5                \* pendingBets.slice(0, 5)
DefaultChainId == "763373"   \* CHAIN_ID || VITE_CHAIN_ID || 763373
Pending == 1                 \* Number(betInfo.status) === 1
Settled == 2                 \* status 2 of bets(betId)
NoBet == 0                   \* status 0: no such bet

\* Two handler invocations, which may overlap: the concurrent sweeps (or a
\* sweep and a single-bet request) of section 5 of the specification.
Procs == {1, 2}
BetIds == 1..MaxBets
ClientSeeds == {42}
Missing == "missing"
OracleKey == "oracleKey"     \* the key whose address is oracleSigner()
OtherKey == "otherKey"       \* a well-formed key of another address
Null == "null"

VARIABLES
    env,         \* process.env of the resolver deployment
    height,      \* the chain's block number
    jumps,       \* height jumps so far
    bets,        \* ledger: betId -> [status, clientSeed, placedAtBlock]
    settleCount, \* ledger: betId -> times payout and stats were applied
    pc,          \* invocation -> position in its handler
    mode,        \* invocation -> "sweep" | "single"
    req,         \* invocation -> request body [has, betId]
    events,      \* sweep: betIds of the BetPlaced events of the query
    scanned,     \* sweep: events whose status has been read
    pendingBets, \* sweep: pendingBets
    results,     \* sweep: results
    cur,         \* betId the invocation is resolving
    tx,          \* invocation -> its resolveBet transaction
    attempts,    \* history: invocation -> attempts [betId, seen, sent, random]
    touched,     \* history: invocation made a chain call
    faults,      \* chain calls that have thrown
    resp,        \* invocation -> HTTP response
    balance,     \* CoinFlipUSDC: token balances of player, owner, vault, treasury
    stats,       \* CoinFlipUSDC: stats[msg.sender] of the player
    flipResult,  \* CoinFlipUSDC: the last flip's FlipResult event, or its revert
    flipCount,   \* calls of flip so far, of both contracts
    gasStats,    \* CoinFlipGasOnly: stats[msg.sender] of the player
    gasResult,   \* CoinFlipGasOnly: the last flip's FlipResult event
    client,      \* CoinFlip component: its state and the position of handleFlip
    clientChain, \* the ledger and chain the component reads: its own bet
    users,       \* User collection: walletAddress -> the stored document
    calls,       \* user routes: caller -> the request it has running
    issued,      \* oauth_tokens Twitter has issued so far
    started,     \* user-route requests started so far
    twitterConfigured \* TWITTER_CLIENT_ID and TWITTER_CLIENT_SECRET are set

vars == <<env, height, jumps, bets, settleCount, pc, mode, req, events, scanned,
          pendingBets, results, cur, tx, attempts, touched, faults, resp,
          balance, stats, flipResult, flipCount, gasStats, gasResult,
          client, clientChain, users, calls, issued, started, twitterConfigured>>

clientVars == <<client, clientChain>>
userVars == <<users, calls, issued, started, twitterConfigured>>

usdcVars == <<balance, stats, flipResult>>
gasOnlyVars == <<gasStats, gasResult>>
flipVars == <<usdcVars, flipCount, gasOnlyVars>>

ledgerVars == <<height, jumps, bets, settleCount>>
sweepVars == <<events, scanned, pendingBets, results>>
procVars == <<pc, mode, req, sweepVars, cur, tx, attempts, touched, faults, resp>>
resolverVars == <<env, ledgerVars, procVars>>

\* What the resolver, the flip contracts and the component leave alone.
appVars == <<flipVars, clientVars, userVars>>
notFlipVars == <<resolverVars, clientVars, userVars>>
notClientVars == <<resolverVars, flipVars, userVars>>
notUserVars == <<resolverVars, flipVars, clientVars>>

\* ------------------------------------------------------------ helpers
Min(a, b) == IF a < b THEN a ELSE b
Max(a, b) == IF a > b THEN a ELSE b
Last(s) == s[Len(s)]

\* The elements of a sequence.
Range(s) == {s[i] : i \in 1..Len(s)}

\* The ascending sequence of the elements of a finite set of integers.
RECURSIVE SortedSeq(_)
SortedSeq(S) ==
    IF S = {} THEN <<>>
    ELSE LET m == CHOOSE x \in S : \A y \in S : x <= y
         IN <<m>> \o SortedSeq(S \ {m})

\* ------------------------------------------------------ configuration
EnvNames == {"RPC_URL", "PRIVATE_KEY", "COINFLIP_ADDRESS", "SERVER_SEED", "CHAIN_ID"}

FullEnv(key) ==
    [RPC_URL |-> "rpc", PRIVATE_KEY |-> key, COINFLIP_ADDRESS |-> "ledger",
     SERVER_SEED |-> "serverSeed", CHAIN_ID |-> DefaultChainId,
     CRON_SECRET |-> Missing]

\* A SERVER_SEED that is not the hex of 32 bytes.
MalformedSeed == "not-bytes32"

\* The value encodes as bytes32.
IsBytes32(v) == v \notin {Missing, MalformedSeed}

\* The message of the error abiCoder.encode throws for a value that is not
\* bytes32: it quotes the value.
InvalidBytesLike(v) == "invalid BytesLike value (value=" \o v \o ")"

\* The deployments considered: complete with the oracle's key, complete with
\* another key, complete but for one variable, and complete with a server
\* seed that is not bytes32.
Envs ==
    {FullEnv(OracleKey), FullEnv(OtherKey)}
        \cup {[FullEnv(OracleKey) EXCEPT ![n] = Missing] : n \in EnvNames}
        \cup {[FullEnv(OracleKey) EXCEPT !.SERVER_SEED = MalformedSeed]}

\* Mutant: the check forgets SERVER_SEED.
MissingRequiredButSeed(e) ==
    \/ e.RPC_URL = Missing
    \/ e.PRIVATE_KEY = Missing
    \/ e.COINFLIP_ADDRESS = Missing

\* if (!RPC_URL || !PRIVATE_KEY || !CONTRACT_ADDRESS || !SERVER_SEED)
MissingRequired(e) ==
    \/ e.RPC_URL = Missing
    \/ e.PRIVATE_KEY = Missing
    \/ e.COINFLIP_ADDRESS = Missing
    \/ e.SERVER_SEED = Missing

\* The deployment with a shared cron secret.
CronEnv == [FullEnv(OracleKey) EXCEPT !.CRON_SECRET = "cronSecret"]

\* req.headers.authorization: absent, the bearer token, the bare token.
NoHeader == "undefined"
Headers == {NoHeader, "Bearer cronSecret", "cronSecret"}

\* Mutant: the header is not looked at.
UnauthorizedNever(e, authHeader) == FALSE

\* process.env.CRON_SECRET && authHeader !== `Bearer ${process.env.CRON_SECRET}`
Unauthorized(e, authHeader) ==
    e.CRON_SECRET # Missing /\ authHeader # "Bearer " \o e.CRON_SECRET

\* Number(process.env.CHAIN_ID || process.env.VITE_CHAIN_ID || 763373)
CHAIN_ID(e) == IF e.CHAIN_ID = Missing THEN DefaultChainId ELSE e.CHAIN_ID

\* ------------------------------------------------- commitment scheme
\* keccak256 as an ideal hash: injective on what it is given.
Keccak(x) == <<"keccak256", x>>

\* abiCoder.encode(types, values): the values under their types.
AbiEncode(types, values) == <<types, values>>

\* resolveBet, lines 70-75
resolveBetRandom(SERVER_SEED, clientSeed, betId) ==
    Keccak(AbiEncode(<<"bytes32", "uint256", "uint256">>,
                     <<SERVER_SEED, clientSeed, betId>>))

\* Mutant: the single-bet handler encodes betId before clientSeed.
handlerRandomSwapped(SERVER_SEED, clientSeed, betId) ==
    Keccak(AbiEncode(<<"bytes32", "uint256", "uint256">>,
                     <<SERVER_SEED, betId, clientSeed>>))

\* single-bet handler, lines 312-317
handlerRandom(SERVER_SEED, clientSeed, betId) ==
    Keccak(AbiEncode(<<"bytes32", "uint256", "uint256">>,
                     <<SERVER_SEED, clientSeed, betId>>))

\* lines 78-83 and 320-325
MsgHash(betId, random) ==
    Keccak(AbiEncode(<<"uint256", "bytes32">>, <<betId, random>>))

\* wallet.signMessage: a signature names its signer and the digest signed.
SignMessage(key, digest) == [signer |-> key, digest |-> digest]

\* wallet.address
Address(key) == "address-of-" \o key

\* ---------------------------------------------------------- the ledger
OracleSigner == Address(OracleKey)

\* No random value computed yet.
NoRandom == <<>>

NoTx == [betId |-> 0, random |-> NoRandom, signature |-> Null, st |-> "none"]

\* BetPlaced events of blocks fromBlock..toBlock, in event order.
BetPlacedIn(fromBlock, toBlock) ==
    SortedSeq({b \in DOMAIN bets : /\ bets[b].status # NoBet
                                   /\ bets[b].placedAtBlock >= fromBlock
                                   /\ bets[b].placedAtBlock <= toBlock})

\* contract.filters.BetPlaced(betId) over fromBlock..toBlock
BetPlacedOf(b, fromBlock, toBlock) ==
    IF /\ b \in DOMAIN bets
       /\ bets[b].status # NoBet
       /\ bets[b].placedAtBlock >= fromBlock
       /\ bets[b].placedAtBlock <= toBlock
    THEN <<b>>
    ELSE <<>>

\* bets(betId): a betId never placed reads as status 0.
BetInfo(b) ==
    IF b \in DOMAIN bets THEN bets[b]
    ELSE [status |-> NoBet, clientSeed |-> 0, placedAtBlock |-> 0]

\* ecrecover of the signature over the digest the ledger recomputes.
Recover(signature, digest) ==
    IF signature.digest = digest THEN Address(signature.signer) ELSE "nobody"

\* Mutant: the ledger does not look at the status of the bet.
LedgerAcceptsAnyStatus(t) ==
    /\ t.betId \in DOMAIN bets
    /\ bets[t.betId].status # NoBet
    /\ Recover(t.signature, MsgHash(t.betId, t.random)) = OracleSigner

\* The guard of resolveBet on chain: the bet is Pending and the signature
\* over (betId, random) is the oracle's.
LedgerAccepts(t) ==
    /\ t.betId \in DOMAIN bets
    /\ bets[t.betId].status = Pending
    /\ Recover(t.signature, MsgHash(t.betId, t.random)) = OracleSigner

\* A wager: the next betId becomes Pending and BetPlaced is emitted.
PlaceBet(c) ==
    /\ \E b \in DOMAIN bets :
          /\ bets[b].status = NoBet
          /\ \A a \in DOMAIN bets : a < b => bets[a].status # NoBet
          /\ bets' = [bets EXCEPT ![b] = [status |-> Pending, clientSeed |-> c,
                                          placedAtBlock |-> height]]
    /\ UNCHANGED <<appVars, env, height, jumps, settleCount, procVars>>

\* The chain grows.
MineBlocks ==
    /\ jumps < MaxJumps
    /\ jumps' = jumps + 1
    /\ height' = height + BlockJump
    /\ UNCHANGED <<appVars, env, bets, settleCount, procVars>>

\* The ledger executes the resolveBet transaction of invocation p: it settles
\* the bet, or reverts and changes nothing.
MineTx(p) ==
    /\ tx[p].st = "sent"
    /\ IF LedgerAccepts(tx[p])
       THEN /\ bets' = [bets EXCEPT ![tx[p].betId].status = Settled]
            /\ settleCount' = [settleCount EXCEPT ![tx[p].betId] = @ + 1]
            /\ tx' = [tx EXCEPT ![p].st = "ok"]
            /\ attempts' = [attempts EXCEPT ![p][Len(attempts[p])].outcome = "settled"]
       ELSE /\ tx' = [tx EXCEPT ![p].st = "reverted"]
            /\ attempts' = [attempts EXCEPT ![p][Len(attempts[p])].outcome = "reverted"]
            /\ UNCHANGED <<bets, settleCount>>
    /\ UNCHANGED <<appVars, env, height, jumps, pc, mode, req, sweepVars, cur, touched,
                   faults, resp>>

\* The transaction reverts for a reason of the chain (out of gas, no
\* liquidity for the payout): nothing changes.
RevertTx(p) ==
    /\ tx[p].st = "sent"
    /\ tx' = [tx EXCEPT ![p].st = "reverted"]
    /\ attempts' = [attempts EXCEPT ![p][Len(attempts[p])].outcome = "reverted"]
    /\ faults < MaxFaults
    /\ faults' = faults + 1
    /\ UNCHANGED <<appVars, env, ledgerVars, pc, mode, req, sweepVars, cur, touched, resp>>

\* ---------------------------------------------------- responses, results
Response(code, error) ==
    [code |-> code, error |-> error, message |-> "",
     checked |-> 0, pending |-> 0, resolved |-> 0]

\* res.status(500).json({ error, message: error.message })
ErrorResponse(error, message) == [Response(500, error) EXCEPT !.message = message]

NoResponse == Response(0, "")

\* { resolved: false, reason: 'Not pending' }
NotPendingResult == [resolved |-> FALSE, reason |-> "Not pending", error |-> ""]

\* { resolved: false, reason: 'Event not found' }
EventNotFoundResult == [resolved |-> FALSE, reason |-> "Event not found", error |-> ""]

\* Mutant: the receipt's status is compared with the wrong value.
ReceiptResultInverted(st) == [resolved |-> (st # "ok"), reason |-> "", error |-> ""]

\* { resolved: receipt.status === 1, betId, transactionHash, blockNumber }
ReceiptResult(st) == [resolved |-> (st = "ok"), reason |-> "", error |-> ""]

\* catch (error): { resolved: false, error: error.message }
ErrorResult(message) == [resolved |-> FALSE, reason |-> "", error |-> message]

\* Mutant: resolved counts every result.
ResolvedCountAll(rs) == Len(rs)

\* results.filter(r => r.resolved).length
ResolvedCount(rs) == Cardinality({k \in 1..Len(rs) : rs[k].resolved})

\* Mutant: the whole of pendingBets is resolved.
betsToResolveAll(p) == pendingBets[p]

\* pendingBets.slice(0, 5)
betsToResolve(p) == SubSeq(pendingBets[p], 1, Min(BatchCap, Len(pendingBets[p])))

\* res.status(200).json({ success, checked, pending, resolved, results })
SweepResponse(p, rs) ==
    [code |-> 200, error |-> "", message |-> "", checked |-> Len(events[p]),
     pending |-> Len(pendingBets[p]), resolved |-> ResolvedCount(rs)]

\* The query for the BetPlaced event was not made, or it threw.
NoQuery == -1

\* History of one resolution attempt: the status bets(betId) answered (read
\* tells whether it answered), the number of BetPlaced events the query
\* answered, the random value computed, whether a transaction was sent and
\* what the ledger did with it.
NewAttempt(b) == [betId |-> b, seen |-> NoBet, read |-> FALSE, events |-> NoQuery,
                  sent |-> FALSE, random |-> NoRandom, outcome |-> "none"]

SetLast(as, a) == [as EXCEPT ![Len(as)] = a]

\* Mutant: the sweep keeps the bets of the wrong status.
IsPendingWrongStatus(status) == status = Settled

\* Number(betInfo.status) === 1, line 152
IsPending(status) == status = Pending

\* Mutant: resolveBet does not check the status it read.
resolveBetNotPendingNever(status) == FALSE

\* Number(betInfo.status) !== 1, line 49
resolveBetNotPending(status) == status # Pending

\* Number(betInfo.status) !== 1, line 287
handlerNotPending(status) == status # Pending

\* Mutant: the oracle signer is read but not compared.
SignerMismatchNever(onchainOracle, walletAddress) == FALSE

\* onchainOracle.toLowerCase() !== wallet.address.toLowerCase(), line 274
SignerMismatch(onchainOracle, walletAddress) == onchainOracle # walletAddress

\* !betId, line 250: no betId in the body, or a falsy one
BetIdMissing(r) == ~r.has \/ r.betId = 0

\* A chain call may throw while the budget of faults lasts.
Faulty(f) ==
    /\ f # "none" => faults < MaxFaults
    /\ faults' = IF f = "none" THEN faults ELSE faults + 1

\* Invocations are numbered in the order they start.
MayStart(p) == pc[p] = "idle" /\ \A q \in Procs : q < p => pc[q] # "idle"

\* ------------------------------------------------- sweep handler (cron)
\* Lines 108-131: the request is authorized against the cron secret, then
\* the configuration is read and checked.
StartSweep(p, authHeader) ==
    /\ MayStart(p)
    /\ mode' = [mode EXCEPT ![p] = "sweep"]
    /\ req' = [req EXCEPT ![p] = [has |-> FALSE, betId |-> 0, auth |-> authHeader]]
    /\ IF Unauthorized(env, authHeader)
       THEN /\ resp' = [resp EXCEPT ![p] = Response(401, "Unauthorized")]
            /\ pc' = [pc EXCEPT ![p] = "done"]
       ELSE IF MissingRequired(env)
       THEN /\ resp' = [resp EXCEPT ![p] =
                           Response(500, "Missing required environment variables")]
            /\ pc' = [pc EXCEPT ![p] = "done"]
       ELSE /\ pc' = [pc EXCEPT ![p] = "scan"]
            /\ UNCHANGED resp
    /\ UNCHANGED <<appVars, env, ledgerVars, sweepVars, cur, tx, attempts, touched, faults>>

\* Mutant: the loop breaks at the first result that carries an error.
AfterResolveStopsOnError(p, r) ==
    LET rs == Append(results[p], r)
    IN /\ results' = [results EXCEPT ![p] = rs]
       /\ IF Len(rs) < Len(betsToResolve(p)) /\ r.error = ""
          THEN /\ cur' = [cur EXCEPT ![p] = betsToResolve(p)[Len(rs) + 1]]
               /\ pc' = [pc EXCEPT ![p] = "resolve"]
               /\ UNCHANGED resp
          ELSE /\ cur' = [cur EXCEPT ![p] = 0]
               /\ pc' = [pc EXCEPT ![p] = "done"]
               /\ resp' = [resp EXCEPT ![p] = SweepResponse(p, rs)]

\* The loop over betsToResolve, lines 164-170, after resolveBet returned r:
\* the result is pushed and the loop goes on, or the sweep answers 200.
AfterResolve(p, r) ==
    LET rs == Append(results[p], r)
    IN /\ results' = [results EXCEPT ![p] = rs]
       /\ IF Len(rs) < Len(betsToResolve(p))
          THEN /\ cur' = [cur EXCEPT ![p] = betsToResolve(p)[Len(rs) + 1]]
               /\ pc' = [pc EXCEPT ![p] = "resolve"]
               /\ UNCHANGED resp
          ELSE /\ cur' = [cur EXCEPT ![p] = 0]
               /\ pc' = [pc EXCEPT ![p] = "done"]
               /\ resp' = [resp EXCEPT ![p] = SweepResponse(p, rs)]

\* The outer catch of the sweep, lines 181-187.
SweepFails(p, message) ==
    /\ pc' = [pc EXCEPT ![p] = "done"]
    /\ resp' = [resp EXCEPT ![p] = ErrorResponse("Failed to check pending bets", message)]

\* Lines 160-179 once the events have all been read: pend is pendingBets.
StartResolving(p, checked, pend) ==
    /\ pendingBets' = [pendingBets EXCEPT ![p] = pend]
    /\ IF pend = <<>>
       THEN /\ pc' = [pc EXCEPT ![p] = "done"]
            /\ resp' = [resp EXCEPT ![p] =
                           [code |-> 200, error |-> "", message |-> "",
                            checked |-> checked, pending |-> 0, resolved |-> 0]]
            /\ UNCHANGED cur
       ELSE /\ pc' = [pc EXCEPT ![p] = "resolve"]
            /\ cur' = [cur EXCEPT ![p] = pend[1]]
            /\ UNCHANGED resp

\* Lines 137-143: getBlockNumber and queryFilter over the last 1000 blocks;
\* either may throw (f).
Scan(p, f) ==
    /\ pc[p] = "scan"
    /\ Faulty(f)
    /\ touched' = [touched EXCEPT ![p] = TRUE]
    /\ LET currentBlock == height
           fromBlock == Max(0, currentBlock - SweepWindow)
           found == BetPlacedIn(fromBlock, currentBlock)
       IN IF f # "none"
          THEN SweepFails(p, f) /\ UNCHANGED <<events, pendingBets, cur>>
          ELSE /\ events' = [events EXCEPT ![p] = found]
               /\ IF found = <<>>
                  THEN StartResolving(p, 0, <<>>)
                  ELSE /\ pc' = [pc EXCEPT ![p] = "filter"]
                       /\ UNCHANGED <<pendingBets, cur, resp>>
    /\ UNCHANGED <<appVars, env, ledgerVars, mode, req, scanned, results, tx, attempts>>

\* Lines 146-158: the status of the next event's bet is read; a throw of
\* contract.bets (f) is logged and the bet is skipped.
Filter(p, f) ==
    /\ pc[p] = "filter"
    /\ Faulty(f)
    /\ LET betId == events[p][scanned[p] + 1]
           pend == IF f = "none" /\ IsPending(BetInfo(betId).status)
                   THEN Append(pendingBets[p], betId)
                   ELSE pendingBets[p]
       IN /\ scanned' = [scanned EXCEPT ![p] = @ + 1]
          /\ IF scanned[p] + 1 < Len(events[p])
             THEN /\ pendingBets' = [pendingBets EXCEPT ![p] = pend]
                  /\ UNCHANGED <<pc, cur, resp>>
             ELSE StartResolving(p, Len(events[p]), pend)
    /\ UNCHANGED <<appVars, env, ledgerVars, mode, req, events, results, tx, attempts, touched>>

\* -------------------------------------------------- resolveBet (sweep)
\* Mutant: resolveBet lets the error through to the catch of the sweep.
resolveBetRethrows(p, message) == SweepFails(p, message) /\ UNCHANGED <<results, cur>>

\* catch (error) of resolveBet, lines 101-104: the error becomes the result.
resolveBetCatch(p, message) == AfterResolve(p, ErrorResult(message))

\* Mutant: resolveBet trusts the status the scan of the sweep has seen.
resolveBetReadScanned(betId) == [BetInfo(betId) EXCEPT !.status = Pending]

\* Line 47: const betInfo = await contract.bets(betId), read from the ledger
\* at the bet's turn.
resolveBetRead(betId) == BetInfo(betId)

\* Lines 44-91: the status of the bet is read again; if it is Pending, its
\* BetPlaced event is fetched, random and the message hash are computed from
\* the event's clientSeed, the hash is signed and resolveBet is sent.  f is
\* the call that throws, if any, or "noEvent": the node answers the query
\* with no event (its logs lag behind the state it served bets() from).
resolveBet(p, f) ==
    /\ pc[p] = "resolve"
    /\ Faulty(f)
    /\ LET betId == cur[p]
           betInfo == resolveBetRead(betId)
           currentBlock == height
           fromBlock == Max(betInfo.placedAtBlock - EventWindow, 0)
           found == IF f = "noEvent" THEN <<>>
                    ELSE BetPlacedOf(betId, fromBlock, currentBlock)
           clientSeed == IF found = <<>> THEN 0 ELSE bets[found[1]].clientSeed
           random == resolveBetRandom(env.SERVER_SEED, clientSeed, betId)
           signature == SignMessage(env.PRIVATE_KEY, MsgHash(betId, random))
           queried == f \notin {"bets", "queryFilter"} /\ betInfo.status = Pending
           a == [NewAttempt(betId) EXCEPT
                    !.read = (f # "bets"),
                    !.seen = IF f # "bets" THEN betInfo.status ELSE NoBet,
                    !.events = IF queried THEN Len(found) ELSE NoQuery]
           add(x) == attempts' = [attempts EXCEPT ![p] = Append(@, x)]
       IN IF f = "bets"
          THEN resolveBetCatch(p, f) /\ add(a) /\ UNCHANGED tx
          ELSE IF resolveBetNotPending(betInfo.status)
          THEN /\ f = "none"
               /\ AfterResolve(p, NotPendingResult) /\ add(a) /\ UNCHANGED tx
          ELSE IF f = "queryFilter"
          THEN resolveBetCatch(p, f) /\ add(a) /\ UNCHANGED tx
          ELSE IF Len(found) = 0
          THEN /\ f \in {"none", "noEvent"}
               /\ AfterResolve(p, EventNotFoundResult) /\ add(a) /\ UNCHANGED tx
          ELSE IF ~IsBytes32(env.SERVER_SEED)
          THEN /\ f = "none"
               /\ resolveBetCatch(p, InvalidBytesLike(env.SERVER_SEED))
               /\ add(a) /\ UNCHANGED tx
          ELSE IF f = "send"
          THEN /\ resolveBetCatch(p, f)
               /\ add([a EXCEPT !.random = random])
               /\ UNCHANGED tx
          ELSE /\ tx' = [tx EXCEPT ![p] = [betId |-> betId, random |-> random,
                                           signature |-> signature, st |-> "sent"]]
               /\ add([a EXCEPT !.random = random, !.sent = TRUE])
               /\ pc' = [pc EXCEPT ![p] = "rb_wait"]
               /\ UNCHANGED <<results, cur, resp>>
    /\ UNCHANGED <<appVars, env, ledgerVars, mode, req, events, scanned, pendingBets, touched>>

\* Mutant: resolveBet does not await the transaction.
resolveBetNotAwaited(st) == st # "none"

\* Line 94: await tx.wait() returns once the transaction is mined or has
\* reverted.
resolveBetAwaited(st) == st \in {"ok", "reverted"}

\* Lines 93-100: tx.wait() answers the receipt, or throws when the
\* transaction reverted.
resolveBetWait(p) ==
    /\ pc[p] = "rb_wait"
    /\ resolveBetAwaited(tx[p].st)
    /\ tx' = [tx EXCEPT ![p] = NoTx]
    /\ IF tx[p].st = "ok"
       THEN AfterResolve(p, ReceiptResult(tx[p].st))
       ELSE resolveBetCatch(p, "revert")
    /\ UNCHANGED <<appVars, env, ledgerVars, mode, req, events, scanned, pendingBets,
                   attempts, touched, faults>>

\* ------------------------------------------------- single-bet handler
\* The catch of the single-bet handler, lines 349-355.
SingleFails(p, message) ==
    /\ pc' = [pc EXCEPT ![p] = "done"]
    /\ resp' = [resp EXCEPT ![p] = ErrorResponse("Failed to resolve bet", message)]

Answer(p, code, error) ==
    /\ pc' = [pc EXCEPT ![p] = "done"]
    /\ resp' = [resp EXCEPT ![p] = Response(code, error)]

\* Lines 247-266: the body and the configuration are checked.
StartSingle(p, r) ==
    /\ MayStart(p)
    /\ mode' = [mode EXCEPT ![p] = "single"]
    /\ req' = [req EXCEPT ![p] = r]
    /\ IF BetIdMissing(r)
       THEN Answer(p, 400, "betId is required")
       ELSE IF MissingRequired(env)
            THEN Answer(p, 500, "Missing required environment variables")
            ELSE /\ pc' = [pc EXCEPT ![p] = "s_run"]
                 /\ UNCHANGED resp
    /\ UNCHANGED <<appVars, env, ledgerVars, sweepVars, cur, tx, attempts, touched, faults>>

\* Mutant: the handler takes the first event without looking for one.
handlerEventMissingNever(events_) == FALSE

\* events.length === 0, line 302
handlerEventMissing(events_) == Len(events_) = 0

\* Lines 268-333: oracleSigner() is compared with the wallet, the bet is read
\* and must be Pending, its BetPlaced event is fetched, random and the
\* message hash are computed, the hash is signed and resolveBet is sent.  f
\* is the call that throws, if any.
SingleResolve(p, f) ==
    /\ pc[p] = "s_run"
    /\ Faulty(f)
    /\ touched' = [touched EXCEPT ![p] = TRUE]
    /\ LET betId == req[p].betId
           betInfo == BetInfo(betId)
           currentBlock == height
           fromBlock == Max(betInfo.placedAtBlock - EventWindow, 0)
           found == IF f = "noEvent" THEN <<>>
                    ELSE BetPlacedOf(betId, fromBlock, currentBlock)
           clientSeed == IF found = <<>> THEN 0 ELSE bets[found[1]].clientSeed
           random == handlerRandom(env.SERVER_SEED, clientSeed, betId)
           signature == SignMessage(env.PRIVATE_KEY, MsgHash(betId, random))
           queried == f \notin {"bets", "queryFilter"} /\ betInfo.status = Pending
           a == [NewAttempt(betId) EXCEPT
                    !.read = (f # "bets"),
                    !.seen = IF f # "bets" THEN betInfo.status ELSE NoBet,
                    !.events = IF queried THEN Len(found) ELSE NoQuery]
           add(x) == attempts' = [attempts EXCEPT ![p] = Append(@, x)]
       IN IF f = "oracleSigner"
          THEN SingleFails(p, f) /\ UNCHANGED <<tx, attempts, cur>>
          ELSE IF SignerMismatch(OracleSigner, Address(env.PRIVATE_KEY))
          THEN /\ f = "none"
               /\ Answer(p, 500, "Oracle signer mismatch")
               /\ UNCHANGED <<tx, attempts, cur>>
          ELSE /\ cur' = [cur EXCEPT ![p] = betId]
               /\ IF f = "bets"
                  THEN SingleFails(p, f) /\ add(a) /\ UNCHANGED tx
                  ELSE IF handlerNotPending(betInfo.status)
                  THEN /\ f = "none"
                       /\ Answer(p, 400, "Bet is not pending") /\ add(a)
                       /\ UNCHANGED tx
                  ELSE IF f = "queryFilter"
                  THEN SingleFails(p, f) /\ add(a) /\ UNCHANGED tx
                  ELSE IF handlerEventMissing(found)
                  THEN /\ f \in {"none", "noEvent"}
                       /\ Answer(p, 404, "BetPlaced event not found") /\ add(a)
                       /\ UNCHANGED tx
                  ELSE IF ~IsBytes32(env.SERVER_SEED)
                  THEN /\ f = "none"
                       /\ SingleFails(p, InvalidBytesLike(env.SERVER_SEED))
                       /\ add(a) /\ UNCHANGED tx
                  ELSE IF f = "send"
                  THEN /\ SingleFails(p, f)
                       /\ add([a EXCEPT !.random = random])
                       /\ UNCHANGED tx
                  ELSE /\ tx' = [tx EXCEPT ![p] =
                                    [betId |-> betId, random |-> random,
                                     signature |-> signature, st |-> "sent"]]
                       /\ add([a EXCEPT !.random = random, !.sent = TRUE])
                       /\ pc' = [pc EXCEPT ![p] = "s_wait"]
                       /\ UNCHANGED resp
    /\ UNCHANGED <<appVars, env, ledgerVars, mode, req, sweepVars>>

\* Mutant: the handler answers 200 whatever became of the transaction.
handlerReceiptAny(st) == TRUE

\* Lines 335-339: tx.wait() answered a receipt and its status is not 0.
handlerReceiptOk(st) == st = "ok"

\* Lines 335-347: tx.wait() answers the receipt, or throws when the
\* transaction reverted.
SingleWait(p) ==
    /\ pc[p] = "s_wait"
    /\ tx[p].st \in {"ok", "reverted"}
    /\ tx' = [tx EXCEPT ![p] = NoTx]
    /\ IF handlerReceiptOk(tx[p].st)
       THEN Answer(p, 200, "")
       ELSE SingleFails(p, "revert")
    /\ UNCHANGED <<appVars, env, ledgerVars, mode, req, sweepVars, cur, attempts, touched,
                   faults>>

\* --------------------------------------- CoinFlipUSDC (CoinFlip.sol)
\* enum Side { Heads, Tails }
Heads == 0
Tails == 1
Sides == {Heads, Tails}

PAYOUT_NUM == 195
PAYOUT_DEN == 100

\* decimals() of the token (USDC).
Decimals == 6

RECURSIVE Pow(_, _)
Pow(b, e) == IF e = 0 THEN 1 ELSE b * Pow(b, e - 1)

\* MAX_BET = 5 * (10 ** d)
MAX_BET == 5 * Pow(10, Decimals)

\* The amounts a player calls flip with.
Amounts == {0, 1, 3, 100, MAX_BET, MAX_BET + 1}

\* h[0], the first byte of the hash of the block's entropy.
HashBytes == {0, 1, 254, 255}

\* Tokens the player and the owner hold when the contract is deployed.
PlayerFunds == MAX_BET + 100
OwnerFunds == 2 * MAX_BET

\* A digest h, by its first and its last byte.
Digests == [1..2 -> HashBytes]

OutcomeOfLastByte(h) == IF (h[Len(h)] % 2) = 0 THEN Heads ELSE Tails

\* (uint8(h[0]) & 1) == 0 ? Side.Heads : Side.Tails, in CoinFlipUSDC.flip:
\* h[0] is the first byte of the bytes32, and x & 1 is x mod 2.
Outcome(h) == IF (h[1] % 2) = 0 THEN Heads ELSE Tails

PayoutDividedFirst(amount) == (amount \div PAYOUT_DEN) * PAYOUT_NUM

\* payout = (amount * PAYOUT_NUM) / PAYOUT_DEN
Payout(amount) == (amount * PAYOUT_NUM) \div PAYOUT_DEN

\* profit = payout > amount ? (payout - amount) : 0
Profit(payout, amount) == IF payout > amount THEN payout - amount ELSE 0

\* quotePayout(amount)
quotePayout(amount) == (amount * PAYOUT_NUM) \div PAYOUT_DEN

NoFlip ==
    [status |-> "none", guess |-> Heads, outcome |-> Heads, won |-> FALSE,
     amountIn |-> 0, payoutTotal |-> 0, profitPlayer |-> 0, before |-> 0,
     h |-> <<>>]

\* A failed require: the call changes nothing.
FlipReverts(reason, guess, amount) ==
    /\ flipResult' = [NoFlip EXCEPT !.status = reason, !.guess = guess,
                                    !.amountIn = amount, !.before = balance.player]
    /\ UNCHANGED <<balance, stats>>

\* flip(guess, amount, userSeed) by the player; h is the hash of the block's
\* entropy and the seed.
Flip(guess, amount, h) ==
    /\ flipCount < MaxFlips
    /\ flipCount' = flipCount + 1
    /\ LET outcome == Outcome(h)
           won == outcome = guess
           payout == IF won THEN Payout(amount) ELSE 0
           profit == Profit(payout, amount)
           pulled == [balance EXCEPT !.player = @ - amount, !.vault = @ + amount]
       IN  IF amount = 0 THEN FlipReverts("amount=0", guess, amount)
           ELSE IF amount > MAX_BET THEN FlipReverts("exceeds $5 cap", guess, amount)
           ELSE IF balance.player < amount
           THEN FlipReverts("transferFrom failed", guess, amount)
           ELSE IF won /\ pulled.vault < payout
           THEN FlipReverts("insufficient liquidity", guess, amount)
           ELSE /\ balance' = [pulled EXCEPT !.player = @ + payout, !.vault = @ - payout]
                /\ stats' = [plays |-> stats.plays + 1,
                             wins |-> stats.wins + (IF won THEN 1 ELSE 0),
                             wagered |-> stats.wagered + amount,
                             paidOut |-> stats.paidOut + payout]
                /\ flipResult' = [status |-> "ok", guess |-> guess, outcome |-> outcome,
                                  won |-> won, amountIn |-> amount,
                                  payoutTotal |-> payout, profitPlayer |-> profit,
                                  before |-> balance.player, h |-> h]
    /\ UNCHANGED <<gasOnlyVars, notFlipVars>>

\* deposit(amount) by the owner.
Deposit(amount) ==
    /\ balance.owner >= amount
    /\ balance' = [balance EXCEPT !.owner = @ - amount, !.vault = @ + amount]
    /\ UNCHANGED <<stats, flipResult, flipCount, gasOnlyVars, notFlipVars>>

\* withdraw(amount) by the owner, to the treasury.
Withdraw(amount) ==
    /\ balance.vault >= amount
    /\ balance' = [balance EXCEPT !.vault = @ - amount, !.treasury = @ + amount]
    /\ UNCHANGED <<stats, flipResult, flipCount, gasOnlyVars, notFlipVars>>

\* (uint8(h[0]) & 1) == 0 ? Side.Heads : Side.Tails, in CoinFlipGasOnly.flip
GasOnlyOutcome(h) == IF (h[1] % 2) = 0 THEN Heads ELSE Tails

\* CoinFlipGasOnly._bitToSide(x)
bitToSide(x) == IF (x[1] % 2) = 0 THEN Heads ELSE Tails

NoGasFlip ==
    [status |-> "none", guess |-> Heads, outcome |-> Heads, won |-> FALSE,
     playIndex |-> 0, h |-> <<>>]

\* CoinFlipGasOnly.flip(guess, userSeed) by the player; h is the hash.
GasOnlyFlip(guess, h) ==
    /\ flipCount < MaxFlips
    /\ flipCount' = flipCount + 1
    /\ LET outcome == GasOnlyOutcome(h)
           won == outcome = guess
           plays == gasStats.plays + 1
       IN  /\ gasStats' = [plays |-> plays,
                            wins |-> gasStats.wins + (IF won THEN 1 ELSE 0)]
           /\ gasResult' = [status |-> "ok", guess |-> guess, outcome |-> outcome,
                             won |-> won, playIndex |-> plays, h |-> h]
    /\ UNCHANGED <<usdcVars, notFlipVars>>

\* Both contracts after their constructors.
FlipConstructed ==
    /\ gasStats = [plays |-> 0, wins |-> 0]
    /\ gasResult = NoGasFlip
    /\ balance = [player |-> PlayerFunds, owner |-> OwnerFunds, vault |-> 0,
                  treasury |-> 0]
    /\ stats = [plays |-> 0, wins |-> 0, wagered |-> 0, paidOut |-> 0]
    /\ flipResult = NoFlip
    /\ flipCount = 0

\* ------------------------------------- CoinFlip component (handleFlip)
MAX_WAIT_TIME == 30000
POLL_INTERVAL == 2000

\* toBlock = Math.min(placedBlock + 5, currentBlock)
ResolvedWindow == 5

\* Milliseconds a poll's chain calls take, beyond the interval.
Latencies == {0, 1000}

\* resolveResult.outcome === undefined
NoOutcome == -1

NoResult == [guess |-> "none", outcome |-> "none", won |-> FALSE]

\* currentGuess === "heads" ? 0 : 1
GuessOf(side) == IF side = "heads" THEN 0 ELSE 1

\* outcome === 0 ? "heads" : "tails"
SideOf(outcome) == IF outcome = 0 THEN "heads" ELSE "tails"

\* The component when mounted, and the chain before the player's bet.
ClientMounted ==
    /\ client = [pc |-> "idle", isFlipping |-> FALSE, showAnimation |-> FALSE,
                 animationResult |-> "null", lastResult |-> NoResult,
                 toast |-> "", error |-> "", guess |-> "none", started |-> FALSE,
                 fallback |-> FALSE, resolved |-> FALSE, elapsed |-> 0,
                 thrown |-> FALSE, queries |-> <<>>, backend |-> "none"]
    /\ clientChain = [height |-> 1, status |-> NoBet, guess |-> 0, outcome |-> 0,
                      placedAtBlock |-> 0, resolvedAtBlock |-> 0]

\* The chain grows by one block.
ClientChainMines ==
    /\ clientChain.status # NoBet
    /\ clientChain.height < MaxHeight
    /\ clientChain' = [clientChain EXCEPT !.height = @ + 1]
    /\ UNCHANGED <<client, notClientVars>>

\* The oracle's resolveBet transaction settles the player's bet (sent by the
\* backend call or by a sweep) and the ledger emits BetResolved.
OracleSettles(outcome) ==
    /\ clientChain.status = Pending
    /\ clientChain.height < MaxHeight
    /\ clientChain' = [clientChain EXCEPT !.height = @ + 1,
                                          !.status = Settled,
                                          !.outcome = outcome,
                                          !.resolvedAtBlock = clientChain.height + 1]
    /\ UNCHANGED <<client, notClientVars>>

\* Mutant: the finally block leaves the animation on.
FinallyKeepsAnimation(c) == [c EXCEPT !.isFlipping = FALSE, !.pc = "done"]

\* finally, lines 771-775
Finally(c) ==
    [c EXCEPT !.isFlipping = FALSE, !.showAnimation = FALSE,
              !.animationResult = "null", !.pc = "done"]

\* catch (error), lines 755-769, then finally
Catch(c, message) == Finally([c EXCEPT !.toast = "Flip Failed", !.error = message])

\* An early return of the checks: setIsFlipping(false), setShowAnimation(false),
\* return; the finally block runs on the way out.
EarlyReturn(c, title) ==
    Finally([c EXCEPT !.isFlipping = FALSE, !.showAnimation = FALSE, !.toast = title])

\* setAnimationResult, setLastResult, setShowAnimation(false) and the toast.
Show(c, outcomeSide, won) ==
    [c EXCEPT !.animationResult = outcomeSide,
              !.lastResult = [guess |-> c.guess, outcome |-> outcomeSide, won |-> won],
              !.showAnimation = FALSE,
              !.toast = IF won THEN "You Won!" ELSE "You Lost"]

\* Lines 402-451: the guards before the flip, then setIsFlipping(true) and
\* setShowAnimation(true).
handleFlip(side, configured) ==
    /\ client.pc = "idle"
    /\ client' = IF ~configured
                 THEN [client EXCEPT !.pc = "done", !.toast = "Missing Requirements"]
                 ELSE [client EXCEPT !.pc = "checks", !.guess = side,
                                     !.started = TRUE,
                                     !.isFlipping = TRUE, !.showAnimation = TRUE]
    /\ UNCHANGED <<clientChain, notClientVars>>

CheckOutcomes ==
    {"ok", "aboveMax", "insufficientBalance", "insufficientLiquidity",
     "approvalRejected", "approvalFailed", "throws"}

\* Lines 453-524: signer, amount, balances, liquidity and allowance; o is
\* what they find.
handleFlipChecks(o) ==
    /\ client.pc = "checks"
    /\ client' =
          CASE o = "ok" -> [client EXCEPT !.pc = "placeBet"]
            [] o = "aboveMax" -> EarlyReturn(client, client.toast)
            [] o = "insufficientBalance" -> EarlyReturn(client, "Insufficient Balance")
            [] o = "insufficientLiquidity" -> EarlyReturn(client, "Insufficient Liquidity")
            [] o = "approvalRejected" -> EarlyReturn(client, "Approval Rejected")
            [] o = "approvalFailed" -> EarlyReturn(client, client.toast)
            [] o = "throws" -> Catch(client, "Transaction failed")
    /\ UNCHANGED <<clientChain, notClientVars>>

PlaceBetOutcomes == {"ok", "rejected", "noEvent"}

\* Lines 527-556: placeBet is sent and mined; its receipt holds BetPlaced.
handleFlipPlaceBet(o) ==
    /\ client.pc = "placeBet"
    /\ clientChain.height < MaxHeight
    /\ IF o = "rejected"
       THEN /\ client' = Catch(client, "Transaction was rejected")
            /\ UNCHANGED clientChain
       ELSE /\ clientChain' = [clientChain EXCEPT
                                  !.height = @ + 1,
                                  !.status = Pending,
                                  !.guess = GuessOf(client.guess),
                                  !.placedAtBlock = clientChain.height + 1]
            /\ client' = IF o = "noEvent"
                         THEN Catch(client, "BetPlaced event not found")
                         ELSE [client EXCEPT !.pc = "resolve"]
    /\ UNCHANGED notClientVars

\* What resolveBetImmediately(betId, userSeed) answers.
ResolveResults ==
    [success : BOOLEAN, alreadyResolved : BOOLEAN, outcome : {0, 1, NoOutcome}]

\* Mutant: a failed backend resolution fails the flip.
resolveFailedNever(resolveResult) == FALSE

\* !resolveResult.success, line 596
resolveFailed(resolveResult) == ~resolveResult.success

\* Lines 561-599 and 680-752: the backend's answer is shown at once, or the
\* fallback begins (startTime = Date.now(), resolved = false); the call may
\* throw.
handleFlipResolve(resolveResult, throws) ==
    /\ client.pc = "resolve"
    /\ LET c == [client EXCEPT
                    !.backend = IF resolveResult.success THEN "ok" ELSE "failed"]
       IN  client' =
              IF throws THEN Catch(client, "Failed to fetch")
              ELSE IF /\ resolveResult.success /\ resolveResult.alreadyResolved
                      /\ resolveResult.outcome # NoOutcome
              THEN Finally(Show(c, SideOf(resolveResult.outcome),
                                c.guess = SideOf(resolveResult.outcome)))
              ELSE IF resolveFailed(resolveResult)
              THEN [c EXCEPT !.pc = "poll", !.fallback = TRUE,
                             !.resolved = FALSE, !.elapsed = 0]
              ELSE IF resolveResult.outcome = NoOutcome
              THEN Catch(c, "Backend did not return outcome")
              ELSE Finally(Show(c, SideOf(resolveResult.outcome),
                                c.guess = SideOf(resolveResult.outcome)))
    /\ UNCHANGED <<clientChain, notClientVars>>

PollFaults == {"none", "bets", "getBlockNumber", "queryFilter"}

\* BetResolved(betId) events of blocks fromBlock..toBlock
BetResolvedIn(fromBlock, toBlock) ==
    IF /\ clientChain.status = Settled
       /\ clientChain.resolvedAtBlock >= fromBlock
       /\ clientChain.resolvedAtBlock <= toBlock
    THEN <<[outcome |-> clientChain.outcome,
            won |-> clientChain.outcome = clientChain.guess]>>
    ELSE <<>>

\* Mutant: the loop gives up after one interval.
pollAgainShort(c) == ~c.resolved /\ c.elapsed < POLL_INTERVAL

\* while (!resolved && (Date.now() - startTime) < MAX_WAIT_TIME), line 604
pollAgain(c) == ~c.resolved /\ c.elapsed < MAX_WAIT_TIME

\* Lines 604-671, one iteration: the interval passes, then bets(betId) is
\* read; on status 2 resolved is set, and the block number and the
\* BetResolved events of placedBlock..placedBlock+5 are fetched; the result
\* is shown if an event came back.  f is the call that throws, if any: the
\* catch of line 668 logs it.
handleFlipPoll(latency, f) ==
    /\ client.pc = "poll"
    /\ pollAgain(client)
    /\ LET waited == [client EXCEPT !.elapsed = @ + POLL_INTERVAL + latency]
           status == clientChain.status
           currentBlock == clientChain.height
           placedBlock == clientChain.placedAtBlock
           receiptBlock == clientChain.placedAtBlock
           fromBlock == Max(placedBlock, receiptBlock)
           toBlock == Min(placedBlock + ResolvedWindow, currentBlock)
           events_ == BetResolvedIn(fromBlock, toBlock)
           event == events_[Len(events_)]
           asked == [from |-> fromBlock, to |-> toBlock, failed |-> f = "queryFilter"]
       IN  client' =
              IF f = "bets" THEN [waited EXCEPT !.thrown = TRUE]
              ELSE IF status # Settled
              THEN IF f = "none" THEN waited ELSE client
              ELSE IF f = "getBlockNumber"
              THEN [waited EXCEPT !.resolved = TRUE, !.thrown = TRUE]
              ELSE IF f = "queryFilter"
              THEN [waited EXCEPT !.resolved = TRUE, !.thrown = TRUE,
                                  !.queries = Append(@, asked)]
              ELSE IF Len(events_) > 0
              THEN [Show(waited, SideOf(event.outcome), event.won) EXCEPT
                       !.resolved = TRUE, !.queries = Append(@, asked)]
              ELSE [waited EXCEPT !.resolved = TRUE, !.queries = Append(@, asked)]
    /\ client' # client
    /\ UNCHANGED <<clientChain, notClientVars>>

\* Lines 673-677: the loop is over; without resolved the flip fails with
\* 'Bet resolution timeout', else handleFlip returns.
handleFlipPollEnd ==
    /\ client.pc = "poll"
    /\ ~pollAgain(client)
    /\ client' = IF ~client.resolved
                 THEN Catch(client, "Bet resolution timeout")
                 ELSE Finally(client)
    /\ UNCHANGED <<clientChain, notClientVars>>

\* ------------------------------------------------------ specification
Requests ==
    {[has |-> FALSE, betId |-> 0, auth |-> NoHeader]}
        \cup {[has |-> TRUE, betId |-> b, auth |-> NoHeader] : b \in 0..MaxBets}

SweepFaults == {"none", "rpc"}
ResolveFaults == {"none", "bets", "queryFilter", "noEvent", "send"}
SingleFaults == {"none", "oracleSigner", "bets", "queryFilter", "noEvent", "send"}

\* ------------------------------------- user routes (server/routes/userRoutes.js)
Wallets == {"0xaa", "0xbb"}
WalletParams == Wallets \cup {" 0xAA"}
Callers == {"q1", "q2"}
TwitterIds == {"t1"}
NoToken == 0
POINTS_PER_FLIP == 100
POINTS_PER_TWITTER_FOLLOW == 10
POINTS_PER_REFERRAL == 5

\* walletAddress.toLowerCase().trim()
toLowerCaseTrim(walletAddress) ==
    IF walletAddress = " 0xAA" THEN "0xaa" ELSE walletAddress

\* new User({ walletAddress, points: 0 }): a document not in the collection yet.
NewUser(walletAddress) ==
    [isNew |-> TRUE, walletAddress |-> walletAddress, points |-> 0, flips |-> 0,
     twitterFollowed |-> FALSE, referralUsed |-> FALSE, twitterUserId |-> Null,
     oauthToken |-> NoToken, oauthTokenSecret |-> NoToken]

\* let user = await User.findOne({ walletAddress }); if (!user) user = new User(..)
findOneOrNew(walletAddress) == users[walletAddress]

\* The wallets whose stored document has this oauthToken.
WithOAuthToken(oauth_token) ==
    {w \in Wallets : ~users[w].isNew /\ users[w].oauthToken = oauth_token}

\* User.findOne({ twitterUserId, walletAddress: { $ne: normalizedAddress } })
existingUserWithTwitterId(twitterUserId, normalizedAddress) ==
    \E w \in Wallets : /\ ~users[w].isNew
                       /\ users[w].twitterUserId = twitterUserId
                       /\ w # normalizedAddress

\* user.save() of a new document finds the wallet's document already there.
saveThrows(user) == user.isNew /\ ~users[user.walletAddress].isNew

\* user.save(): a new document is inserted; of a stored document the paths
\* that were assigned since it was read are written, the others are kept.
savedDocument(user, modified) ==
    IF user.isNew
    THEN [user EXCEPT !.isNew = FALSE]
    ELSE [f \in DOMAIN user |->
            IF f \in modified THEN user[f] ELSE users[user.walletAddress][f]]

\* No request of the caller is running.
NoCall ==
    [route |-> "none", pc |-> "idle", user |-> NewUser("none"), modified |-> {},
     oauth_token |-> NoToken, twitterUserId |-> Null]

\* The server has started: an empty collection and no request.
ServerStarted(configured) ==
    /\ users = [w \in Wallets |-> NewUser(w)]
    /\ calls = [q \in Callers |-> NoCall]
    /\ issued = 0
    /\ started = 0
    /\ twitterConfigured = configured

\* A request may arrive for the caller (the second caller's requests are the
\* ones that overlap a request of the first).
MayCall(q) ==
    /\ calls[q].pc = "idle"
    /\ started < MaxRequests
    /\ q = "q1" \/ calls["q1"].pc # "idle"

\* The request answers without leaving anything to do.
Responds(q) ==
    /\ calls' = [calls EXCEPT ![q] = NoCall]
    /\ UNCHANGED <<users, issued, twitterConfigured, notUserVars>>

\* The request goes on to its user.save().
GoesToSave(q, route, user, modified) ==
    /\ calls' = [calls EXCEPT ![q] = [NoCall EXCEPT !.route = route, !.pc = "save",
                                                    !.user = user,
                                                    !.modified = modified]]
    /\ UNCHANGED <<users, issued, twitterConfigured, notUserVars>>

\* POST /:walletAddress/flip, to its save.
postFlip(q, walletAddress) ==
    /\ MayCall(q)
    /\ started' = started + 1
    /\ LET user == findOneOrNew(toLowerCaseTrim(walletAddress)) IN
       GoesToSave(q, "flip",
                  [user EXCEPT !.points = @ + POINTS_PER_FLIP, !.flips = @ + 1],
                  {"points", "flips"})

\* POST /:walletAddress/twitter-follow, to its save.
postTwitterFollow(q, walletAddress) ==
    /\ MayCall(q)
    /\ started' = started + 1
    /\ LET user == findOneOrNew(toLowerCaseTrim(walletAddress)) IN
       IF twitterConfigured \/ user.twitterFollowed
       THEN Responds(q)
       ELSE GoesToSave(q, "twitter-follow",
                       [user EXCEPT !.points = @ + POINTS_PER_TWITTER_FOLLOW,
                                    !.twitterFollowed = TRUE],
                       {"points", "twitterFollowed"})

\* POST /:walletAddress/referral, to its save.
postReferral(q, walletAddress) ==
    /\ MayCall(q)
    /\ started' = started + 1
    /\ LET user == findOneOrNew(toLowerCaseTrim(walletAddress)) IN
       IF user.referralUsed
       THEN Responds(q)
       ELSE GoesToSave(q, "referral",
                       [user EXCEPT !.points = @ + POINTS_PER_REFERRAL,
                                    !.referralUsed = TRUE],
                       {"points", "referralUsed"})

\* GET /:walletAddress/twitter-oauth, to its save: getTwitterOAuthUrl returns
\* a token Twitter has not issued before, or throws.
getTwitterOAuth(q, walletAddress, urlThrows) ==
    /\ MayCall(q)
    /\ started' = started + 1
    /\ IF ~twitterConfigured \/ urlThrows
       THEN /\ calls' = [calls EXCEPT ![q] = NoCall]
            /\ UNCHANGED <<users, issued, twitterConfigured, notUserVars>>
       ELSE LET user == findOneOrNew(toLowerCaseTrim(walletAddress)) IN
            /\ issued' = issued + 1
            /\ calls' = [calls EXCEPT ![q] =
                           [NoCall EXCEPT !.route = "twitter-oauth", !.pc = "save",
                                          !.user = [user EXCEPT
                                             !.oauthToken = issued + 1,
                                             !.oauthTokenSecret = issued + 1],
                                          !.modified =
                                             {"oauthToken", "oauthTokenSecret"}]]
            /\ UNCHANGED <<users, twitterConfigured, notUserVars>>

\* GET /twitter-callback, to its verifyFollowAfterOAuth. oauth_token 0 stands
\* for a query without oauth_token or oauth_verifier.
getTwitterCallback(q, oauth_token) ==
    /\ MayCall(q)
    /\ started' = started + 1
    /\ IF \/ oauth_token = NoToken
          \/ WithOAuthToken(oauth_token) = {}
          \/ users[CHOOSE w \in WithOAuthToken(oauth_token) : TRUE].oauthTokenSecret
                = NoToken
       THEN Responds(q)
       ELSE /\ calls' = [calls EXCEPT ![q] =
                  [NoCall EXCEPT
                     !.route = "twitter-callback", !.pc = "verify",
                     !.user = users[CHOOSE w \in WithOAuthToken(oauth_token) : TRUE],
                     !.oauth_token = oauth_token]]
            /\ UNCHANGED <<users, issued, twitterConfigured, notUserVars>>

\* What verifyFollowAfterOAuth does: it throws, or returns isFollowing and
\* the id of the Twitter account that authorised the request.
Verifications ==
    {[throws |-> TRUE, isFollowing |-> FALSE, twitterUserId |-> Null]}
        \cup {[throws |-> FALSE, isFollowing |-> b, twitterUserId |-> t] :
                 b \in BOOLEAN, t \in TwitterIds}

\* The callback after verifyFollowAfterOAuth: a throw goes to the catch, which
\* redirects; otherwise the tokens are cleared on the document in memory and
\* the callback goes to a save or to the lookup of the Twitter id.
callbackVerified(q, verification) ==
    /\ calls[q].pc = "verify"
    /\ IF verification.throws
       THEN calls' = [calls EXCEPT ![q] = NoCall]
       ELSE calls' = [calls EXCEPT
              ![q].user = [@ EXCEPT !.oauthToken = NoToken,
                                    !.oauthTokenSecret = NoToken],
              ![q].modified = {"oauthToken", "oauthTokenSecret"},
              ![q].twitterUserId = verification.twitterUserId,
              ![q].pc = IF ~verification.isFollowing \/ calls[q].user.twitterFollowed
                        THEN "save" ELSE "findExisting"]
    /\ UNCHANGED <<users, issued, started, twitterConfigured, notUserVars>>

\* The callback after its lookup of the Twitter id: the points are awarded
\* on the document in memory unless another wallet has the id.
callbackAwards(q) ==
    /\ calls[q].pc = "findExisting"
    /\ IF existingUserWithTwitterId(calls[q].twitterUserId,
                                    toLowerCaseTrim(calls[q].user.walletAddress))
       THEN calls' = [calls EXCEPT ![q].pc = "save"]
       ELSE calls' = [calls EXCEPT
              ![q].user = [@ EXCEPT !.points = @ + POINTS_PER_TWITTER_FOLLOW,
                                    !.twitterFollowed = TRUE,
                                    !.twitterUserId = calls[q].twitterUserId],
              ![q].modified = @ \cup {"points", "twitterFollowed", "twitterUserId"},
              ![q].pc = "save"]
    /\ UNCHANGED <<users, issued, started, twitterConfigured, notUserVars>>

\* await user.save() of any route, and the response after it.
userSave(q) ==
    /\ calls[q].pc = "save"
    /\ users' = IF saveThrows(calls[q].user)
                THEN users
                ELSE [users EXCEPT ![calls[q].user.walletAddress] =
                        savedDocument(calls[q].user, calls[q].modified)]
    /\ calls' = [calls EXCEPT ![q] = NoCall]
    /\ UNCHANGED <<issued, started, twitterConfigured, notUserVars>>

\* No invocation has started.
InvocationsInit ==
    /\ pc = [p \in Procs |-> "idle"]
    /\ mode = [p \in Procs |-> "none"]
    /\ req = [p \in Procs |-> [has |-> FALSE, betId |-> 0, auth |-> NoHeader]]
    /\ events = [p \in Procs |-> <<>>]
    /\ scanned = [p \in Procs |-> 0]
    /\ pendingBets = [p \in Procs |-> <<>>]
    /\ results = [p \in Procs |-> <<>>]
    /\ cur = [p \in Procs |-> 0]
    /\ tx = [p \in Procs |-> NoTx]
    /\ attempts = [p \in Procs |-> <<>>]
    /\ touched = [p \in Procs |-> FALSE]
    /\ faults = 0
    /\ resp = [p \in Procs |-> NoResponse]

\* The ledger at block 0, no bet placed yet.
LedgerInit ==
    /\ height = 0
    /\ jumps = 0
    /\ bets = [b \in BetIds |-> [status |-> NoBet, clientSeed |-> 0, placedAtBlock |-> 0]]
    /\ settleCount = [b \in BetIds |-> 0]

Init ==
    /\ env \in Envs
    /\ LedgerInit
    /\ InvocationsInit
    /\ FlipConstructed /\ ClientMounted /\ ServerStarted(FALSE)

Next ==
    \/ \E c \in ClientSeeds : PlaceBet(c)
    \/ \E p \in Procs : MineTx(p)
    \/ \E p \in Procs : RevertTx(p)
    \/ \E p \in Procs : StartSweep(p, NoHeader)
    \/ \E p \in Procs, f \in SweepFaults : Scan(p, f)
    \/ \E p \in Procs, f \in SweepFaults : Filter(p, f)
    \/ \E p \in Procs, f \in ResolveFaults : resolveBet(p, f)
    \/ \E p \in Procs : resolveBetWait(p)
    \/ \E p \in Procs, r \in Requests : StartSingle(p, r)
    \/ \E p \in Procs, f \in SingleFaults : SingleResolve(p, f)
    \/ \E p \in Procs : SingleWait(p)

Spec == Init /\ [][Next]_vars

\* --------------------------------------------- repeated sweeps (cron)
\* The invocation has answered; its slot takes the next invocation.
Return(p) ==
    /\ pc[p] = "done"
    /\ pc' = [pc EXCEPT ![p] = "idle"]
    /\ mode' = [mode EXCEPT ![p] = "none"]
    /\ events' = [events EXCEPT ![p] = <<>>]
    /\ scanned' = [scanned EXCEPT ![p] = 0]
    /\ pendingBets' = [pendingBets EXCEPT ![p] = <<>>]
    /\ results' = [results EXCEPT ![p] = <<>>]
    /\ attempts' = [attempts EXCEPT ![p] = <<>>]
    /\ touched' = [touched EXCEPT ![p] = FALSE]
    /\ resp' = [resp EXCEPT ![p] = NoResponse]
    /\ UNCHANGED <<appVars, env, ledgerVars, req, cur, tx, faults>>

\* One step of the sweep invocation p when no chain call throws.
SweepStep(p) ==
    \/ StartSweep(p, NoHeader)
    \/ Scan(p, "none")
    \/ Filter(p, "none")
    \/ resolveBet(p, "none")
    \/ resolveBetWait(p)
    \/ Return(p)

LiveInit == Init /\ env = FullEnv(OracleKey)

LiveNext ==
    \/ \E c \in ClientSeeds : PlaceBet(c)
    \/ MineBlocks
    \/ \E p \in Procs : MineTx(p)
    \/ \E p \in Procs : SweepStep(p)

\* The cron keeps invoking the sweep, every invocation runs on, and the chain
\* executes every transaction sent to it (while the transaction of p is in
\* flight, p has no step of its own: one condition covers both).
LiveSpec ==
    /\ LiveInit
    /\ [][LiveNext]_vars
    /\ \A p \in Procs : WF_vars(SweepStep(p) \/ MineTx(p))

\* -------------------------------------------- sweeps behind the secret
\* Sweep requests with any of the headers, against a deployment with or
\* without the cron secret; no chain call throws.
AuthInit ==
    /\ env \in {FullEnv(OracleKey), CronEnv}
    /\ LedgerInit /\ InvocationsInit /\ FlipConstructed /\ ClientMounted /\ ServerStarted(FALSE)

AuthNext ==
    \/ \E c \in ClientSeeds : PlaceBet(c)
    \/ \E p \in Procs : MineTx(p)
    \/ \E p \in Procs, h \in Headers : StartSweep(p, h)
    \/ \E p \in Procs : Scan(p, "none")
    \/ \E p \in Procs : Filter(p, "none")
    \/ \E p \in Procs : resolveBet(p, "none")
    \/ \E p \in Procs : resolveBetWait(p)

AuthSpec == AuthInit /\ [][AuthNext]_vars

\* ------------------------------------------- one sweep over a backlog
\* The ledger holds CapBets bets placed at block 0, any of them Settled by
\* earlier invocations, the others Pending: more than one batch can take.
BacklogInit ==
    /\ height = 0
    /\ jumps = 0
    /\ \E done \in SUBSET (1..CapBets) :
          /\ bets = [b \in 1..CapBets |->
                       [status |-> IF b \in done THEN Settled ELSE Pending,
                        clientSeed |-> CHOOSE c \in ClientSeeds : TRUE,
                        placedAtBlock |-> 0]]
          /\ settleCount = [b \in 1..CapBets |-> IF b \in done THEN 1 ELSE 0]

CapInit ==
    /\ env = FullEnv(OracleKey)
    /\ BacklogInit /\ InvocationsInit /\ FlipConstructed /\ ClientMounted /\ ServerStarted(FALSE)

\* The sweep of the backlog.
CapProcs == {1}

CapNext ==
    \/ \E p \in CapProcs : MineTx(p)
    \/ \E p \in CapProcs : RevertTx(p)
    \/ \E p \in CapProcs : StartSweep(p, NoHeader)
    \/ \E p \in CapProcs, f \in SweepFaults : Scan(p, f)
    \/ \E p \in CapProcs, f \in SweepFaults : Filter(p, f)
    \/ \E p \in CapProcs, f \in ResolveFaults : resolveBet(p, f)
    \/ \E p \in CapProcs : resolveBetWait(p)

CapSpec == CapInit /\ [][CapNext]_vars

\* ------------------------------------------------ flips (CoinFlip.sol)
FlipInit ==
    /\ env = FullEnv(OracleKey)
    /\ LedgerInit /\ InvocationsInit /\ FlipConstructed /\ ClientMounted /\ ServerStarted(FALSE)

FlipNext ==
    \/ \E guess \in Sides, amount \in Amounts, h \in Digests :
          Flip(guess, amount, h)
    \/ \E guess \in Sides, h \in Digests : GasOnlyFlip(guess, h)
    \/ Deposit(MAX_BET)
    \/ Withdraw(MAX_BET)

FlipSpec == FlipInit /\ [][FlipNext]_vars

\* ------------------------------------------- one flip of the component
ClientInit ==
    /\ env = FullEnv(OracleKey)
    /\ LedgerInit /\ InvocationsInit /\ FlipConstructed /\ ClientMounted /\ ServerStarted(FALSE)

\* A step of handleFlip.
ClientStep ==
    \/ \E side \in {"heads", "tails"}, configured \in BOOLEAN :
          handleFlip(side, configured)
    \/ \E o \in CheckOutcomes : handleFlipChecks(o)
    \/ \E o \in PlaceBetOutcomes : handleFlipPlaceBet(o)
    \/ \E r \in ResolveResults, throws \in BOOLEAN : handleFlipResolve(r, throws)
    \/ \E latency \in Latencies, f \in PollFaults : handleFlipPoll(latency, f)
    \/ handleFlipPollEnd

ClientNext ==
    \/ ClientStep
    \/ ClientChainMines
    \/ \E outcome \in Sides : OracleSettles(outcome)

ClientSpec == ClientInit /\ [][ClientNext]_vars

\* The event loop runs handleFlip on: its timers fire and its calls return.
ClientLiveSpec == ClientSpec /\ WF_vars(ClientStep)

\* ----------------------------------------- requests to the user routes
UserInit ==
    /\ env = FullEnv(OracleKey)
    /\ LedgerInit /\ InvocationsInit /\ FlipConstructed /\ ClientMounted
    /\ \E configured \in BOOLEAN : ServerStarted(configured)

UserNext ==
    \/ \E q \in Callers, w \in WalletParams : postFlip(q, w)
    \/ \E q \in Callers, w \in WalletParams : postTwitterFollow(q, w)
    \/ \E q \in Callers, w \in WalletParams : postReferral(q, w)
    \/ \E q \in Callers, w \in WalletParams, urlThrows \in BOOLEAN :
          getTwitterOAuth(q, w, urlThrows)
    \/ \E q \in Callers, oauth_token \in 0..MaxRequests :
          getTwitterCallback(q, oauth_token)
    \/ \E q \in Callers, verification \in Verifications :
          callbackVerified(q, verification)
    \/ \E q \in Callers : callbackAwards(q)
    \/ \E q \in Callers : userSave(q)

UserSpec == UserInit /\ [][UserNext]_vars

\* ====================================================== properties
Sweeps == {p \in Procs : mode[p] = "sweep"}
Singles == {p \in Procs : mode[p] = "single"}
AttemptsOf(p) == 1..Len(attempts[p])

\* The attempt k of invocation p is over: its result is known.
Over(p, k) == k < Len(attempts[p]) \/ pc[p] \notin {"rb_wait", "s_wait"}

\* C1: a bet's status moves from Pending to Settled at most once (payout and
\* stats are applied once), and a Settled bet stays Settled whatever sweep or
\* single-bet invocation runs afterwards.
C1_SettledOnce ==
    [][\A b \in BetIds :
          /\ settleCount'[b] <= 1
          /\ bets[b].status = Settled =>
                bets'[b].status = Settled /\ settleCount'[b] = settleCount[b]
          /\ bets'[b].status = Settled /\ bets[b].status # Settled =>
                bets[b].status = Pending /\ settleCount'[b] = settleCount[b] + 1]_vars

\* One invocation settled the bet and another one then tried to settle it.
C1_Witness ==
    \E b \in BetIds, p \in Procs, q \in Procs :
       /\ p # q
       /\ bets[b].status = Settled
       /\ \E k \in AttemptsOf(p) :
             attempts[p][k].betId = b /\ attempts[p][k].outcome = "settled"
       /\ \E k \in AttemptsOf(q) :
             attempts[q][k].betId = b /\ attempts[q][k].outcome = "reverted"

\* C2: a sweep whose transaction for a bet reverts (the bet was settled by a
\* concurrent invocation) records the failure as that bet's result, goes on
\* with the rest of its batch and answers 200; the bet is settled once.
C2_RaceLoserGoesOn ==
    \A p \in Sweeps : \A k \in AttemptsOf(p) :
       attempts[p][k].outcome = "reverted" /\ Over(p, k) =>
          /\ Len(results[p]) >= k
          /\ results[p][k] = ErrorResult("revert")
          /\ settleCount[attempts[p][k].betId] <= 1
          /\ faults = 0 /\ env.PRIVATE_KEY = OracleKey =>
                settleCount[attempts[p][k].betId] = 1
          /\ pc[p] \in {"resolve", "rb_wait", "done"}
          /\ pc[p] = "done" =>
                /\ resp[p].code = 200
                /\ Len(results[p]) = Len(betsToResolve(p))

\* Two sweeps raced for bet 1: one settled it, the other one's transaction
\* reverted, and the loser went on to resolve the next bet of its batch.
C2_Witness ==
    \E p \in Sweeps, q \in Sweeps :
       /\ p # q /\ faults = 0
       /\ pc[p] = "done" /\ pc[q] = "done"
       /\ resp[p].code = 200 /\ resp[q].code = 200
       /\ Len(results[p]) >= 2 /\ Len(results[q]) >= 1
       /\ attempts[p][1].betId = attempts[q][1].betId
       /\ results[q][1].resolved
       /\ results[p][1] = ErrorResult("revert")
       /\ results[p][2].resolved
       /\ settleCount[attempts[p][1].betId] = 1

\* C3 (as claimed): a single-bet request for a bet that is not Pending is
\* answered as a success, and no transaction is sent for it.
C3_NotPendingIsSuccess ==
    \A p \in Singles :
       /\ pc[p] = "done"
       /\ attempts[p] # <<>>
       /\ attempts[p][1].read
       /\ attempts[p][1].seen = Settled
       => resp[p].code = 200 /\ ~attempts[p][1].sent

\* C4: in a sweep, a bet read as not Pending gets no transaction and the
\* result {resolved: false, reason: 'Not pending'}; its payout is not applied
\* again and the sweep answers 200.
C4_SweepNotPending ==
    \A p \in Sweeps : \A k \in AttemptsOf(p) :
       attempts[p][k].read /\ attempts[p][k].seen # Pending =>
          /\ ~attempts[p][k].sent
          /\ attempts[p][k].outcome = "none"
          /\ Len(results[p]) >= k
          /\ results[p][k] = NotPendingResult
          /\ settleCount[attempts[p][k].betId] <= 1
          /\ pc[p] = "done" => resp[p].code = 200

\* A sweep found the bet Pending when it scanned, and Settled when its turn
\* came: it answered 200 with the result 'Not pending'.
C4_Witness ==
    \E p \in Sweeps : \E k \in AttemptsOf(p) :
       /\ pc[p] = "done" /\ resp[p].code = 200
       /\ attempts[p][k].read /\ attempts[p][k].seen = Settled
       /\ results[p][k] = NotPendingResult
       /\ settleCount[attempts[p][k].betId] = 1

\* The attempt k of sweep p threw or its transaction reverted.
Failed(p, k) ==
    \/ ~attempts[p][k].read
    \/ attempts[p][k].outcome = "reverted"
    \/ /\ attempts[p][k].seen = Pending /\ ~attempts[p][k].sent
       /\ attempts[p][k].events # 0

\* C5: a sweep that has bets to resolve attempts every bet of its batch in
\* order, whatever throws or reverts on the way, and answers 200 with one
\* result per bet, the failed ones as {resolved: false, error}.
C5_BatchIsolation ==
    \A p \in Sweeps :
       /\ Len(attempts[p]) <= Len(betsToResolve(p))
       /\ \A k \in AttemptsOf(p) :
             /\ attempts[p][k].betId = betsToResolve(p)[k]
             /\ Over(p, k) =>
                   /\ Len(results[p]) >= k
                   /\ Failed(p, k) =>
                         ~results[p][k].resolved /\ results[p][k].error # ""
       /\ pc[p] = "done" /\ pendingBets[p] # <<>> =>
             /\ resp[p].code = 200
             /\ Len(results[p]) = Len(betsToResolve(p))
             /\ Len(attempts[p]) = Len(betsToResolve(p))

\* The first bet of a batch of two threw; the second one was still resolved.
C5_Witness ==
    \E p \in Sweeps :
       /\ pc[p] = "done" /\ resp[p].code = 200
       /\ Len(betsToResolve(p)) = 2 /\ Len(results[p]) = 2
       /\ ~attempts[p][1].read
       /\ results[p][1].error # ""
       /\ results[p][2].resolved
       /\ resp[p].resolved = 1

\* The attempt k of invocation p is over and was reported as a failure.
ReportedFailed(p, k) ==
    /\ Over(p, k)
    /\ IF mode[p] = "sweep"
       THEN Len(results[p]) >= k /\ ~results[p][k].resolved
       ELSE pc[p] = "done" /\ resp[p].code # 200

\* Some attempt settled bet b.
SettledBySomeone(b) ==
    \E q \in Procs : \E j \in AttemptsOf(q) :
       attempts[q][j].betId = b /\ attempts[q][j].outcome = "settled"

PastBodyCheck(p) == pc[p] # "idle" /\ (mode[p] = "single" => ~BetIdMissing(req[p]))

\* The invocation p made no chain call: no read, no query, no transaction.
NoChainInteraction(p) == ~touched[p] /\ attempts[p] = <<>> /\ tx[p] = NoTx

ConfigError == Response(500, "Missing required environment variables")

C8_SignerMismatchIsFatal ==
    \A p \in Singles :
       /\ PastBodyCheck(p)
       /\ ~MissingRequired(env)
       /\ Address(env.PRIVATE_KEY) # OracleSigner
       => /\ attempts[p] = <<>> /\ tx[p] = NoTx
          /\ pc[p] \in {"s_run", "done"}
          /\ pc[p] = "done" =>
                /\ resp[p].code = 500
                /\ faults = 0 => resp[p].error = "Oracle signer mismatch"
          /\ req[p].betId \in BetIds => bets[req[p].betId].status # Settled

\* A single-bet request for a Pending bet was refused for the signer mismatch.
C8_Witness ==
    \E p \in Singles :
       /\ env.PRIVATE_KEY = OtherKey
       /\ pc[p] = "done"
       /\ resp[p] = Response(500, "Oracle signer mismatch")
       /\ req[p].betId \in BetIds
       /\ bets[req[p].betId].status = Pending

\* The BetPlaced event of bet b lies in the range a sweep would scan now.
InScannedRange(b) ==
    /\ bets[b].status # NoBet
    /\ bets[b].placedAtBlock >= Max(0, height - SweepWindow)
    /\ bets[b].placedAtBlock <= height

\* C9 (as claimed): under repeated sweeps and no chain failure, a Pending bet
\* whose BetPlaced event lies in the scanned range is eventually Settled.
C9_PendingInRangeSettles ==
    \A b \in BetIds :
       (bets[b].status = Pending /\ InScannedRange(b)) ~> (bets[b].status = Settled)

\* C9 (amended): such a bet is eventually Settled, unless the chain grows
\* until its BetPlaced event is older than the 1000 blocks a sweep scans.
C9_SettlesOrLeavesRange ==
    \A b \in BetIds :
       (bets[b].status = Pending /\ InScannedRange(b))
          ~> (bets[b].status = Settled \/ ~InScannedRange(b))

\* A sweep settled a bet whose event is in the scanned range, after the chain
\* had grown past an older bet.
C9_Witness ==
    \E b \in BetIds, p \in Sweeps :
       /\ height > SweepWindow
       /\ bets[b].status = Settled /\ InScannedRange(b)
       /\ \E k \in AttemptsOf(p) :
             attempts[p][k].betId = b /\ attempts[p][k].outcome = "settled"

\* C10: all the resolution attempts for one bet, of sweeps and of single-bet
\* requests, compute the same random value, and the transaction they send
\* carries it under a signature over (betId, that value).
C10_SameRandomPerBet ==
    /\ \A p \in Procs, q \in Procs :
          \A i \in AttemptsOf(p), j \in AttemptsOf(q) :
             /\ attempts[p][i].random # NoRandom
             /\ attempts[q][j].random # NoRandom
             /\ attempts[p][i].betId = attempts[q][j].betId
             => attempts[p][i].random = attempts[q][j].random
    /\ \A p \in Procs :
          tx[p].st # "none" =>
             /\ tx[p].betId = Last(attempts[p]).betId
             /\ tx[p].random = Last(attempts[p]).random
             /\ tx[p].signature.digest = MsgHash(tx[p].betId, tx[p].random)

\* A sweep and a single-bet request both sent a transaction for the same bet.
C10_Witness ==
    \E p \in Sweeps, q \in Singles :
       \E k \in AttemptsOf(p) :
          /\ attempts[q] # <<>>
          /\ attempts[p][k].betId = attempts[q][1].betId
          /\ attempts[p][k].sent /\ attempts[q][1].sent
          /\ attempts[p][k].random = attempts[q][1].random

\* C11: a single-bet request is answered 200 only after its resolveBet
\* transaction was confirmed with a successful receipt, and the bet it names
\* is Settled on the ledger whenever that answer has been given.
C11_SuccessMeansSettled ==
    \A p \in Singles :
       pc[p] = "done" /\ resp[p].code = 200 =>
          /\ tx[p] = NoTx
          /\ attempts[p] # <<>>
          /\ Last(attempts[p]).betId = req[p].betId
          /\ Last(attempts[p]).sent
          /\ Last(attempts[p]).outcome = "settled"
          /\ bets[req[p].betId].status = Settled
          /\ settleCount[req[p].betId] = 1

\* A single-bet request was answered 200 while another one for the same bet
\* had its transaction reverted and was answered 500.
C11_Witness ==
    \E p \in Singles, q \in Singles :
       /\ p # q
       /\ req[p].betId = req[q].betId
       /\ pc[p] = "done" /\ resp[p].code = 200
       /\ pc[q] = "done" /\ resp[q].code = 500
       /\ attempts[q] # <<>> /\ Last(attempts[q]).outcome = "reverted"

\* C12: a single-bet request whose BetPlaced event is not found is answered
\* 404, sends no transaction and leaves the bet as it found it, Pending, so
\* that the request can be made again.
C12_EventNotFound ==
    \A p \in Singles :
       /\ \A k \in AttemptsOf(p) :
             attempts[p][k].events = 0 =>
                /\ ~attempts[p][k].sent /\ tx[p] = NoTx
                /\ pc[p] = "done" /\ resp[p].code = 404
       /\ pc[p] = "done" /\ resp[p].code = 404 =>
             /\ resp[p].error = "BetPlaced event not found"
             /\ tx[p] = NoTx
             /\ Len(attempts[p]) = 1
             /\ attempts[p][1].betId = req[p].betId
             /\ attempts[p][1].read /\ attempts[p][1].seen = Pending
             /\ attempts[p][1].events = 0
             /\ ~attempts[p][1].sent
             /\ attempts[p][1].random = NoRandom
             /\ ~SettledBySomeone(req[p].betId) =>
                   /\ bets[req[p].betId].status = Pending
                   /\ settleCount[req[p].betId] = 0

\* A request was answered 404 for a Pending bet; the same request made again
\* settled the bet.
C12_Witness ==
    \E p \in Singles, q \in Singles :
       /\ p < q
       /\ req[p].betId = req[q].betId
       /\ pc[p] = "done" /\ resp[p].code = 404
       /\ pc[q] = "done" /\ resp[q].code = 200
       /\ bets[req[q].betId].status = Settled

\* C13: one sweep attempts at most 5 bets, each of them once: it sends at
\* most one transaction per betId, and a failed resolution is not tried again
\* in the same invocation.
C13_AtMostFiveOnceEach ==
    \A p \in Sweeps :
       /\ Len(attempts[p]) <= BatchCap
       /\ Len(results[p]) <= BatchCap
       /\ \A j \in AttemptsOf(p), k \in AttemptsOf(p) :
             attempts[p][j].betId = attempts[p][k].betId => j = k
       /\ \A b \in DOMAIN bets :
             Cardinality({k \in AttemptsOf(p) :
                             attempts[p][k].betId = b /\ attempts[p][k].sent}) <= 1
       /\ tx[p].st # "none" => Last(attempts[p]).sent /\ tx[p].betId = Last(attempts[p]).betId

\* A sweep that found six Pending bets ended after five attempts; the
\* transaction of one of them reverted and the bet was left Pending.
C13_Witness ==
    \E p \in Sweeps :
       /\ pc[p] = "done" /\ resp[p].code = 200
       /\ resp[p].pending = 6
       /\ Len(attempts[p]) = 5
       /\ \E k \in AttemptsOf(p) :
             /\ attempts[p][k].sent /\ attempts[p][k].outcome = "reverted"
             /\ bets[attempts[p][k].betId].status = Pending

\* C14: with a cron secret configured, a sweep request whose Authorization
\* header is not exactly 'Bearer <secret>' is answered 401 and makes no chain
\* call; with no secret configured, a sweep request is processed whatever
\* its header.
C14_CronSecret ==
    \A p \in Sweeps :
       /\ env.CRON_SECRET # Missing /\ req[p].auth # "Bearer " \o env.CRON_SECRET =>
             /\ pc[p] = "done"
             /\ resp[p] = Response(401, "Unauthorized")
             /\ NoChainInteraction(p)
       /\ env.CRON_SECRET = Missing \/ req[p].auth = "Bearer " \o env.CRON_SECRET =>
             /\ resp[p].code # 401
             /\ pc[p] \in {"scan", "filter", "resolve", "rb_wait", "done"}
             /\ pc[p] = "done" => resp[p].code = 200 /\ touched[p]

\* Under a cron secret, the sweep with the bare token was refused and the
\* sweep with the bearer token settled a bet.
C14_Witness ==
    \E p \in Sweeps, q \in Sweeps :
       /\ env.CRON_SECRET # Missing
       /\ req[p].auth = "cronSecret" /\ resp[p].code = 401
       /\ req[q].auth = "Bearer cronSecret"
       /\ pc[q] = "done" /\ resp[q].code = 200 /\ resp[q].resolved = 1

\* The bets that were Pending when sweep p, the only invocation, scanned:
\* those still Pending and those it has settled since.
PendingAtScan(p) ==
    {b \in DOMAIN bets :
        \/ bets[b].status = Pending
        \/ \E k \in AttemptsOf(p) :
              attempts[p][k].betId = b /\ attempts[p][k].outcome = "settled"}

\* C15: in a 200 response of a sweep, checked is the number of BetPlaced
\* events of the scanned range, pending the number of them read as Pending,
\* results has min(5, pending) elements and resolved counts the results with
\* resolved = true; so resolved <= length(results) <= pending <= checked.
C15_SweepCounts ==
    \A p \in Sweeps :
       pc[p] = "done" /\ resp[p].code = 200 =>
          /\ resp[p].checked = Cardinality({b \in DOMAIN bets : InScannedRange(b)})
          /\ resp[p].pending = Len(pendingBets[p])
          /\ {pendingBets[p][k] : k \in 1..Len(pendingBets[p])} \subseteq PendingAtScan(p)
          /\ resp[p].pending >= Cardinality(PendingAtScan(p)) - faults
          /\ Len(results[p]) = Min(5, resp[p].pending)
          /\ resp[p].resolved = Cardinality({k \in 1..Len(results[p]) : results[p][k].resolved})
          /\ resp[p].resolved =
                Cardinality({k \in AttemptsOf(p) : attempts[p][k].outcome = "settled"})
          /\ resp[p].resolved <= Len(results[p])
          /\ Len(results[p]) <= resp[p].pending
          /\ resp[p].pending <= resp[p].checked

\* Six events, six bets read as Pending, five results, four of them resolved.
C15_Witness ==
    \E p \in Sweeps :
       /\ pc[p] = "done" /\ resp[p].code = 200
       /\ resp[p].checked = 6 /\ resp[p].pending = 6
       /\ Len(results[p]) = 5 /\ resp[p].resolved = 4

\* The texts of the response body of invocation p: error and message of the
\* response and, for a sweep, reason and error of every result.
Body(p) ==
    {resp[p].error, resp[p].message}
        \cup {results[p][k].error : k \in 1..Len(results[p])}
        \cup {results[p][k].reason : k \in 1..Len(results[p])}

\* The text is the value v or a message that quotes it.
Carries(text, v) == text = v \/ text = InvalidBytesLike(v)

\* C16 (as claimed): no response body of either endpoint, on success or on
\* any error path, contains the server secret or the signing key.
C16_NoSecretInResponses ==
    \A p \in Procs :
       pc[p] = "done" =>
          \A text \in Body(p) :
             ~Carries(text, env.SERVER_SEED) /\ ~Carries(text, env.PRIVATE_KEY)

\* C17: a successful flip of amount a pays floor(a * 195 / 100) when the guess
\* equals the outcome and 0 otherwise (195 for a = 100); the profit is
\* payout - a on a win and 0 on a loss; quotePayout(a) is the payout of a win.
C17_PayoutAndProfit ==
    flipResult.status = "ok" =>
       LET a == flipResult.amountIn
           p == flipResult.payoutTotal
       IN  /\ flipResult.won <=> flipResult.guess = flipResult.outcome
           /\ flipResult.won =>
                 /\ 100 * p <= 195 * a
                 /\ 195 * a < 100 * (p + 1)
                 /\ flipResult.profitPlayer = p - a
                 /\ p = quotePayout(a)
                 /\ balance.player = flipResult.before - a + p
                 /\ a = 100 => p = 195
           /\ ~flipResult.won =>
                 /\ p = 0
                 /\ flipResult.profitPlayer = 0
                 /\ balance.player = flipResult.before - a

\* A win of 3 units pays 5 (5.85 rounded down), a profit of 2.
C17_Witness ==
    /\ flipResult.status = "ok"
    /\ flipResult.won
    /\ flipResult.amountIn = 3
    /\ flipResult.payoutTotal = 5
    /\ flipResult.profitPlayer = 2
    /\ stats.paidOut >= 5

\* C18 (as claimed): a sweep never submits a resolveBet transaction signed by a
\* key whose address differs from the ledger's oracleSigner(); the mismatch is
\* answered as a configuration error before any transaction is sent.
C18_SweepSignerChecked ==
    \A p \in Sweeps :
       /\ tx[p].st # "none" => Address(tx[p].signature.signer) = OracleSigner
       /\ \A k \in AttemptsOf(p) :
             attempts[p][k].sent => Address(env.PRIVATE_KEY) = OracleSigner

\* C19: when a sweep comes to a bet of its batch, the status it acts on is the
\* one the ledger holds at that moment, not the one its scan has seen: if the
\* bet is no longer Pending, the step submits no transaction and, unless the
\* read throws, reports 'Not pending'.
C19_FreshStatusRead ==
    [][\A p \in Procs :
          /\ mode[p] = "sweep"
          /\ Len(attempts'[p]) = Len(attempts[p]) + 1
          => LET b == cur[p]
                 a == attempts'[p][Len(attempts'[p])]
                 r == results'[p][Len(results[p]) + 1]
             IN  /\ a.betId = b
                 /\ b \in Range(pendingBets[p])
                 /\ a.read => a.seen = bets[b].status
                 /\ bets[b].status # Pending =>
                       /\ ~a.sent
                       /\ tx'[p] = NoTx
                       /\ Len(results'[p]) = Len(results[p]) + 1
                       /\ a.read => r = NotPendingResult
                       /\ ~a.read => r = ErrorResult("bets")]_vars

\* A sweep put the bet into its batch as Pending; a single-bet request settled
\* it before its turn; the sweep reported 'Not pending' and sent nothing.
C19_Witness ==
    \E p \in Sweeps : \E q \in Singles : \E k \in AttemptsOf(p) :
       /\ attempts[p][k].betId \in Range(pendingBets[p])
       /\ attempts[p][k].seen = Settled /\ ~attempts[p][k].sent
       /\ results[p][k] = NotPendingResult
       /\ tx[p] = NoTx
       /\ attempts[q] # <<>>
       /\ Last(attempts[q]).betId = attempts[p][k].betId
       /\ Last(attempts[q]).outcome = "settled"

\* C20: within one sweep the bets attempted are, in BetPlaced event order, the
\* first up to 5 bets read Pending in the scanned range; the next bet is begun
\* only after the previous one's result is recorded and its transaction, if
\* sent, has been confirmed or has reverted; Pending bets beyond the fifth are
\* not attempted.
C20_SequentialInEventOrder ==
    \A p \in Sweeps :
       /\ \A i \in 1..(Len(events[p]) - 1) : events[p][i] < events[p][i + 1]
       /\ \A i \in 1..(Len(pendingBets[p]) - 1) :
             pendingBets[p][i] < pendingBets[p][i + 1]
       /\ Range(pendingBets[p]) \subseteq Range(events[p])
       /\ \A k \in AttemptsOf(p) :
             /\ k <= BatchCap
             /\ attempts[p][k].betId = pendingBets[p][k]
             /\ k < Len(attempts[p]) =>
                   /\ Len(results[p]) >= k
                   /\ attempts[p][k].sent =>
                         attempts[p][k].outcome \in {"settled", "reverted"}
       /\ tx[p].st # "none" => tx[p].betId = Last(attempts[p]).betId
       /\ \A k \in 1..Len(pendingBets[p]) :
             k > BatchCap =>
                \A j \in AttemptsOf(p) : attempts[p][j].betId # pendingBets[p][k]
       /\ faults = 0 /\ pc[p] \in {"resolve", "rb_wait", "done"} =>
             \A b \in Range(events[p]) :
                bets[b].status = Pending => b \in Range(pendingBets[p])

\* A sweep over six Pending bets settled bets 1 to 5 one after the other and
\* ended; bet 6 was not attempted and is still Pending.
C20_Witness ==
    \E p \in Sweeps :
       /\ pc[p] = "done"
       /\ pendingBets[p] = <<1, 2, 3, 4, 5, 6>>
       /\ Len(attempts[p]) = 5
       /\ \A k \in 1..5 :
             /\ attempts[p][k].betId = k
             /\ attempts[p][k].outcome = "settled"
             /\ bets[k].status = Settled
       /\ bets[6].status = Pending

\* C29 (as claimed): the single-bet endpoint answers 400 'betId is required'
\* only when the body carries no betId; a request carrying any unsigned
\* integer, 0 included, goes on to the configuration and chain checks.
C29_RequiredOnlyWhenAbsent ==
    \A p \in Singles :
       /\ pc[p] = "done" /\ resp[p] = Response(400, "betId is required")
             => ~req[p].has
       /\ req[p].has /\ pc[p] = "done" /\ ~MissingRequired(env) => touched[p]

\* C30: in both contracts the outcome of a flip is Heads when the lowest bit
\* of the first byte of the digest is 0 and Tails when it is 1, whatever the
\* other bytes; won is true exactly when the outcome equals the guess.
C30_FirstByteParity ==
    LET bit0(h) == h[1] - 2 * (h[1] \div 2)
        side(h) == IF bit0(h) = 0 THEN 0 ELSE 1
    IN  /\ flipResult.status = "ok" =>
              /\ flipResult.outcome = side(flipResult.h)
              /\ flipResult.won <=> flipResult.outcome = flipResult.guess
        /\ gasResult.status = "ok" =>
              /\ gasResult.outcome = side(gasResult.h)
              /\ gasResult.won <=> gasResult.outcome = gasResult.guess
              /\ gasResult.playIndex = gasStats.plays
              /\ gasStats.wins <= gasStats.plays
        /\ \A x \in Digests : bitToSide(x) = side(x)

\* Two flips on Heads: one of each contract. The digest with an even first
\* and an odd last byte came up Heads and won; the digest with an odd first
\* and an even last byte came up Tails and lost.
C30_Witness ==
    /\ flipResult.status = "ok" /\ flipResult.guess = Heads
    /\ flipResult.h = <<254, 1>> /\ flipResult.outcome = Heads /\ flipResult.won
    /\ gasResult.status = "ok" /\ gasResult.guess = Heads
    /\ gasResult.h = <<1, 254>> /\ gasResult.outcome = Tails /\ ~gasResult.won

\* C21: when the backend's immediate resolution answers failure, the flip is
\* not failed at once: the component polls bets(betId), and the flip ends
\* only once a poll has seen the bet Settled or the timeout has run out.
C21_FallbackToPolling ==
    client.backend = "failed" =>
       /\ client.fallback
       /\ client.pc \in {"poll", "done"}
       /\ client.pc = "poll" => client.toast # "Flip Failed" /\ client.isFlipping
       /\ client.pc = "done" =>
             /\ client.elapsed >= POLL_INTERVAL
             /\ \/ client.resolved
                \/ /\ client.elapsed >= MAX_WAIT_TIME
                   /\ client.error = "Bet resolution timeout"

\* The backend failed, the bet was settled later on, and the third poll saw
\* it and showed the outcome.
C21_Witness ==
    /\ client.backend = "failed"
    /\ client.pc = "done" /\ client.fallback /\ client.resolved
    /\ client.elapsed = 3 * POLL_INTERVAL
    /\ client.lastResult # NoResult
    /\ client.toast \in {"You Won!", "You Lost"}

\* C22: the fallback loop always ends.  It ends at once when a poll has seen
\* the bet Settled; without that it ends at the first check after 30 s, and
\* the flip fails with 'Bet resolution timeout'; a poll that throws neither
\* ends the loop before the timeout nor adds time after it.
C22_PollingTerminates ==
    /\ (client.pc = "poll") ~> (client.pc = "done")
    /\ [](client.pc = "poll" /\ ~client.resolved =>
             client.elapsed < MAX_WAIT_TIME + POLL_INTERVAL + 1000)
    /\ [](client.fallback /\ ~client.resolved /\ client.elapsed < MAX_WAIT_TIME =>
             client.pc = "poll")
    /\ [](client.fallback /\ client.pc = "done" /\ ~client.resolved =>
             /\ client.elapsed >= MAX_WAIT_TIME
             /\ client.toast = "Flip Failed"
             /\ client.error = "Bet resolution timeout")
    /\ [][client.pc = "poll" /\ client.resolved /\ client' # client =>
             client'.pc = "done" /\ client'.elapsed = client.elapsed]_vars

\* A poll threw, the loop went on, the bet stayed Pending and the flip failed
\* by timeout.
C22_Witness ==
    /\ client.pc = "done" /\ client.fallback /\ ~client.resolved
    /\ client.thrown
    /\ client.elapsed >= MAX_WAIT_TIME
    /\ client.error = "Bet resolution timeout"
    /\ clientChain.status = Pending

\* C23 (as claimed): in the fallback, when a poll has seen the bet Settled,
\* the bet's outcome is shown before handleFlip returns: the flip never ends
\* with neither a result nor an error.
C23_SettledIsShown ==
    client.pc = "done" /\ client.fallback /\ client.resolved =>
       \/ client.lastResult # NoResult /\ client.toast \in {"You Won!", "You Lost"}
       \/ client.toast = "Flip Failed"

\* C24 (as claimed): when the BetResolved query of the polling path throws,
\* the outcome is read again over a broader block range.
C24_BroaderQueryOnFailure ==
    client.pc = "done" =>
       \A i \in 1..Len(client.queries) :
          client.queries[i].failed =>
             \E j \in 1..Len(client.queries) :
                /\ j > i
                /\ client.queries[j].from <= client.queries[i].from
                /\ client.queries[j].to >= client.queries[i].to
                /\ client.queries[j].to - client.queries[j].from
                      > client.queries[i].to - client.queries[i].from

\* C25: an invocation of handleFlip that has set isFlipping keeps it set while
\* it runs and, whatever way it ends (an early return of the checks, a shown
\* result, the fallback's timeout, a thrown error), leaves isFlipping false,
\* showAnimation false and animationResult null.
C25_FlipButtonReleased ==
    /\ client.pc \in {"checks", "placeBet", "resolve", "poll"} =>
          client.started /\ client.isFlipping
    /\ client.started /\ client.pc = "done" =>
          /\ ~client.isFlipping
          /\ ~client.showAnimation
          /\ client.animationResult = "null"
    /\ ~client.started => ~client.isFlipping /\ client.pc \in {"idle", "done"}

\* The backend's outcome was shown and handleFlip returned.
C25_Witness ==
    /\ client.started /\ client.pc = "done" /\ client.backend = "ok"
    /\ client.lastResult # NoResult /\ client.lastResult.won
    /\ ~client.isFlipping /\ ~client.showAnimation
    /\ client.animationResult = "null"
\* ------------------------------------------------------------------ C26
Reward(flag, points) == IF flag THEN points ELSE 0

\* C26: whatever requests to the flip, twitter-follow, referral and OAuth
\* callback routes have run, and however their reads and saves interleaved,
\* every stored document has
\* points = 100 * flips + 10 * [twitterFollowed] + 5 * [referralUsed].
C26_PointsMatchRewards ==
    \A w \in Wallets :
        users[w].points =
            POINTS_PER_FLIP * users[w].flips
                + Reward(users[w].twitterFollowed, POINTS_PER_TWITTER_FOLLOW)
                + Reward(users[w].referralUsed, POINTS_PER_REFERRAL)

\* ------------------------------------------------------------------ C27
\* C27: however OAuth callbacks interleave, no two wallets' documents store
\* the same Twitter user id, so one Twitter account earns the follow points
\* for at most one wallet.
C27_OneWalletPerTwitterId ==
    \A w1 \in Wallets, w2 \in Wallets :
        /\ w1 # w2
        /\ users[w1].twitterUserId # Null
        => users[w1].twitterUserId # users[w2].twitterUserId

\* ------------------------------------------------------------------ C28
\* A callback that had found the user of its oauth_token answers.
CallbackAnswers(q) ==
    /\ calls[q].route = "twitter-callback"
    /\ calls'[q].pc = "idle"

\* C28: when a callback that found the user of its oauth_token answers,
\* whatever the outcome, no stored document has that oauth_token any more.
C28_TokensClearedOnEveryOutcome ==
    [][\A q \in Callers :
          CallbackAnswers(q) =>
              \A w \in Wallets : \/ users'[w].isNew
                                 \/ users'[w].oauthToken # calls[q].oauth_token]_vars

====
